---- MODULE Spec2Model ----
(***************************************************************************)
(* Model of the CP-SAT path of MathSchedule (src/models/math_schedule.py): *)
(* variable creation, the constraint families, the solve and the           *)
(* materialisation of the solution into the schedule.                      *)
(*                                                                         *)
(* Dates are day numbers; day 0 is the Monday of the first calendar week.  *)
(* A decision variable y[(task, start, end, physician)] is the tuple       *)
(* <<task, start, end, physician>>; a solver assignment is the set of the  *)
(* variables that have value 1.                                            *)
(***************************************************************************)
EXTENDS Integers, Sequences, FiniteSets, TLC

VARIABLES
    tasks,                  \* task_manager.data['tasks'] (registration order)
    physicians,             \* physician_manager.data['physicians']
    unavailability_periods, \* physician_manager.unavailability_periods
    calendar,               \* calendar.determine_periods(): week_start -> blocks
    scheduling_period,      \* self.scheduling_period
    pc,                     \* position inside generate_schedule
    relevant_periods,       \* local relevant_periods of generate_schedule
    math_tasks,             \* self.math_tasks: task name -> MathTasks, in order
    y_keys,                 \* keys of self.y
    constraints,            \* constraints added to self.math_model
    constraints_info,       \* self.constraints_info
    status,                 \* status returned by math_solver.solve
    solution,               \* variables with value 1 in the solver's answer
    schedule,               \* self.schedule: physician -> list of records
    raised,                 \* exception the last call ended with
    use_initial_schedule,   \* argument of generate_schedule
    solution_hint,          \* math_model solution_hint: vars and values
    file,                   \* contents of the schedule JSON file
    is_unavailable_call,    \* last call of is_unavailable and what it returned
    sweep,                  \* _create_mutually_exclusive_math_tasks_constraints: its locals
    check_conflicts_call    \* whether check_conflicts was called, and what it returned

vars == <<tasks, physicians, unavailability_periods, calendar, scheduling_period,
          pc, relevant_periods, math_tasks, y_keys, constraints,
          constraints_info, status, solution, schedule, raised,
          use_initial_schedule, solution_hint, file, is_unavailable_call,
          sweep, check_conflicts_call>>

\* The variables generate_schedule's steps before the hint leave alone.
io == <<use_initial_schedule, solution_hint, file, is_unavailable_call,
        sweep, check_conflicts_call>>

inputs == <<tasks, physicians, unavailability_periods, calendar, scheduling_period>>

\* ------------------------------------------------------------------ bounds
\* Largest number of calendar weeks.
MaxWeeks == 2

\* Largest number of calendar weeks of the runs on multi-week groups.
MaxGroupWeeks == 4

\* Last day and largest length of the block lists given to the sweep.
MaxSweepDay == 4
MaxSweepLen == 2

\* Last day and largest number of records of the schedules given to
\* check_conflicts.
MaxRecordDay == 2
MaxRecords == 3

\* ------------------------------------------------------------- sequences
Range(s) == {s[i] : i \in 1..Len(s)}

RECURSIVE Flatten(_)
Flatten(ss) == IF ss = <<>> THEN <<>> ELSE Head(ss) \o Flatten(Tail(ss))

RECURSIVE SetToSortedSeq(_)
\* sorted(periods.keys())
SetToSortedSeq(S) ==
    IF S = {} THEN <<>>
    ELSE LET m == CHOOSE x \in S : \A z \in S : x <= z
         IN <<m>> \o SetToSortedSeq(S \ {m})

RECURSIVE InsertByStart(_, _)
InsertByStart(mt, s) ==
    IF s = <<>> THEN <<mt>>
    ELSE IF mt.start_date < Head(s).start_date THEN <<mt>> \o s
         ELSE <<Head(s)>> \o InsertByStart(mt, Tail(s))

RECURSIVE SortByStartDate(_)
\* list.sort(key=lambda x: x.start_date): stable
SortByStartDate(s) ==
    IF s = <<>> THEN <<>>
    ELSE InsertByStart(s[Len(s)], SortByStartDate(SubSeq(s, 1, Len(s) - 1)))

Days(a, b) == [i \in 1..(b - a + 1) |-> a + i - 1]

\* ---------------------------------------------------------------- registry
\* TaskCategory(name, days_parameter, number_of_weeks)
CTU  == [name |-> "CTU",  days_parameter |-> "MULTI_WEEK", number_of_weeks |-> 2]
ER   == [name |-> "ER",   days_parameter |-> "CONTINUOUS", number_of_weeks |-> 1]
VASC == [name |-> "VASC", days_parameter |-> "CONTINUOUS", number_of_weeks |-> 1]
CTU3 == [name |-> "CTU3", days_parameter |-> "MULTI_WEEK", number_of_weeks |-> 3]
CONSULT == [name |-> "CONSULT", days_parameter |-> "CONTINUOUS", number_of_weeks |-> 1]

\* Task.create(category, type, name, week_offset, heaviness, mandatory)
NewTask(category, type, name, week_offset, mandatory) ==
    [name |-> name, category |-> category, type |-> type,
     week_offset |-> week_offset, mandatory |-> mandatory]

CTU_A       == NewTask(CTU, "MAIN", "CTU_A", 0, TRUE)
CTU_B       == NewTask(CTU, "MAIN", "CTU_B", 1, TRUE)
ER_1        == NewTask(ER, "MAIN", "ER_1", 0, TRUE)
ER_2        == NewTask(ER, "MAIN", "ER_2", 0, TRUE)
VASC_1      == NewTask(VASC, "MAIN", "VASC", 0, FALSE)
CTU3_B      == NewTask(CTU3, "MAIN", "CTU3_B", 1, TRUE)
CTU_AB_CALL == NewTask(CTU, "CALL", "CTU_AB_CALL", 0, TRUE)
ER_CALL     == NewTask(ER, "CALL", "ER_CALL", 0, TRUE)
CONSULT_CALL == NewTask(CONSULT, "CALL", "CONSULT_CALL", 0, TRUE)

\* task_manager.link_tasks(main, call)
LinkTable == { <<"CTU_A", "CTU_AB_CALL">>, <<"CTU_B", "CTU_AB_CALL">>,
               <<"ER_1", "ER_CALL">>, <<"ER_2", "ER_CALL">> }

\* The task registrations the model runs on.
TaskLists ==
    { <<CTU_A, CTU_B>>, <<CTU_A, CTU_AB_CALL>>,
      <<ER_1, ER_CALL>>, <<ER_CALL, ER_1>>,
      <<ER_1, ER_2>>, <<ER_1, ER_2, ER_CALL>>,
      <<CTU_A, ER_1>>, <<ER_1, CTU_A>>,
      <<VASC_1, ER_1>>, <<ER_1, VASC_1>>,
      <<CTU_A>>, <<VASC_1>>, <<ER_CALL, CONSULT_CALL>> }

\* task.number_of_weeks
NumberOfWeeks(task) == task.category.number_of_weeks

\* linkage_manager.get_linked_call(task): the linked CALL task's name, or None
get_linked_call(task) ==
    IF \E l \in LinkTable :
           l[1] = task.name /\ \E t \in Range(tasks) : t.name = l[2]
    THEN (CHOOSE l \in LinkTable : l[1] = task.name)[2]
    ELSE "None"

\* Physician(...): name, qualifications, restricted_tasks, exclusion_tasks,
\* preferred_tasks
NewPhysician(name, qualifications, restricted_tasks, exclusion_tasks, preferred_tasks) ==
    [name |-> name, qualifications |-> qualifications,
     restricted_tasks |-> restricted_tasks, exclusion_tasks |-> exclusion_tasks,
     preferred_tasks |-> preferred_tasks]

\* An unavailability entry is a (start, end) tuple or a single date.
Interval(s, e) == [kind |-> "tuple", start_date |-> s, end_date |-> e]
SingleDate(d)  == [kind |-> "date",  start_date |-> d, end_date |-> d]

\* is_unavailable has not been called.
NoCall == [name |-> "None", check_date |-> 0, returned |-> FALSE]

\* _create_mutually_exclusive_math_tasks_constraints has not been called.
NoSweep == [A |-> <<>>, B |-> <<>>, i |-> 0, j |-> 0, added |-> {}, steps |-> 0]

\* check_conflicts has not been called.
NoConflictsCall == [called |-> FALSE, returned |-> <<>>]

PhysicianLists ==
    { << NewPhysician("P1", {"CTU", "ER", "VASC"}, {}, x[1], {}),
         NewPhysician("P2", {"CTU", "ER", "VASC"}, {"ER"}, x[2], {}) >> :
        x \in { <<{}, {}>>, <<{"ER"}, {}>>, <<{}, {"CTU"}>> } }

\* Two physicians who differ only in that P1 prefers the ER category.
PreferencePhysicians ==
    << NewPhysician("P1", {"CTU", "ER", "VASC"}, {}, {}, {"ER"}),
       NewPhysician("P2", {"CTU", "ER", "VASC"}, {}, {}, {}) >>

UnavailabilityChoices ==
    { <<>>,
      "P1" :> << SingleDate(1) >>,
      "P1" :> << Interval(5, 7) >>,
      "P1" :> << Interval(7, 13) >>,
      ("P1" :> << SingleDate(1) >>) @@ ("P2" :> << Interval(0, 6) >>) }

\* ---------------------------------------------------------------- calendar
\* Period blocks of the week that starts on Monday ws.
StandardWeek(ws) ==
    << [type |-> "MAIN", days |-> Days(ws, ws + 4)],
       [type |-> "CALL", days |-> Days(ws + 5, ws + 6)] >>

\* A week with a holiday on Wednesday: MAIN / CALL / MAIN, then the weekend.
HolidayWeek(ws) ==
    << [type |-> "MAIN", days |-> Days(ws, ws + 1)],
       [type |-> "CALL", days |-> Days(ws + 2, ws + 2)],
       [type |-> "MAIN", days |-> Days(ws + 3, ws + 4)],
       [type |-> "CALL", days |-> Days(ws + 5, ws + 6)] >>

WeekOf(shape, ws) == IF shape = "holiday" THEN HolidayWeek(ws) ELSE StandardWeek(ws)

\* calendar.determine_periods() for every calendar of 1..MaxWeeks weeks with
\* at most one holiday week
Calendars ==
    UNION { { [ws \in {7 * (w - 1) : w \in 1..n} |-> WeekOf(shapes[(ws \div 7) + 1], ws)] :
                shapes \in { sh \in [1..n -> {"standard", "holiday"}] :
                               Cardinality({i \in 1..n : sh[i] = "holiday"}) <= 1 } } :
            n \in 1..MaxWeeks }

\* A week of off-days only: a single CALL block.
OffWeek(ws) == << [type |-> "CALL", days |-> Days(ws, ws + 6)] >>

ShapedWeek(shape, ws) == IF shape = "off" THEN OffWeek(ws) ELSE WeekOf(shape, ws)

\* calendar.determine_periods() for every calendar of 1..MaxGroupWeeks weeks
\* with at most one week that is not a standard week
GroupCalendars ==
    UNION { { [ws \in {7 * (w - 1) : w \in 1..n} |-> ShapedWeek(shapes[(ws \div 7) + 1], ws)] :
                shapes \in { sh \in [1..n -> {"standard", "holiday", "off"}] :
                               Cardinality({i \in 1..n : sh[i] # "standard"}) <= 1 } } :
            n \in 1..MaxGroupWeeks }

CalendarEnd(cal) == 7 * Cardinality(DOMAIN cal) - 1

\* ------------------------------------------------------ physician manager
\* Mutant of is_unavailable: the end of an interval is excluded.
is_unavailable_end_excluded(name, check_date) ==
    IF name \notin DOMAIN unavailability_periods THEN FALSE
    ELSE \E i \in 1..Len(unavailability_periods[name]) :
            LET period == unavailability_periods[name][i]
            IN IF period.kind = "tuple"
               THEN period.start_date <= check_date /\ check_date < period.end_date
               ELSE period.start_date = check_date

\* PhysicianManager.is_unavailable(name, check_date)
is_unavailable(name, check_date) ==
    IF name \notin DOMAIN unavailability_periods THEN FALSE
    ELSE \E i \in 1..Len(unavailability_periods[name]) :
            LET period == unavailability_periods[name][i]
            IN IF period.kind = "tuple"
               THEN period.start_date <= check_date /\ check_date <= period.end_date
               ELSE period.start_date = check_date

\* MathSchedule._get_all_physicians
get_all_physicians == [i \in 1..Len(physicians) |-> physicians[i].name]

\* physician_manager.get_physician_by_name
get_physician_by_name(name) == CHOOSE ph \in Range(physicians) : ph.name = name

\* MathSchedule._is_physician_eligible
is_physician_eligible(physician, task) ==
    task.category.name \notin get_physician_by_name(physician).exclusion_tasks

\* ------------------------------------------------------- generate_schedule
\* MathSchedule._extend_scheduling_period
extend_scheduling_period ==
    LET max_task_duration ==
            CHOOSE n \in {NumberOfWeeks(t) : t \in Range(tasks)} :
                \A t \in Range(tasks) : NumberOfWeeks(t) <= n
    IN scheduling_period[2] + 7 * max_task_duration

\* MathSchedule._filter_relevant_periods
filter_relevant_periods(periods, start_date, end_date) ==
    [week_start \in {ws \in DOMAIN periods : start_date <= ws /\ ws <= end_date}
        |-> periods[week_start]]

\* MathSchedule._get_periods_days: (MAIN days lists, CALL days lists)
get_periods_days(week_periods) ==
    LET of(type) == SelectSeq(week_periods, LAMBDA period : period.type = type)
    IN << [i \in 1..Len(of("MAIN")) |-> of("MAIN")[i].days],
          [i \in 1..Len(of("CALL")) |-> of("CALL")[i].days] >>

\* MathTask(name, task_type, ..., index, week_start, days, start_date, end_date, ...)
MathTask(task, index, week_start, days) ==
    [name |-> task.name, task_type |-> task.type, index |-> index,
     week_start |-> week_start, days |-> days,
     start_date |-> days[1], end_date |-> days[Len(days)],
     mandatory |-> task.mandatory]

\* The MathTasks one pass over week number wk_nbr (0-based) creates for a task.
WeekMathTasks(task, wk_nbr, week_starts, periods) ==
    LET wk_start == week_starts[wk_nbr + 1]
        pd       == get_periods_days(periods[wk_start])
        days_of  == IF task.type = "MAIN" THEN pd[1] ELSE pd[2]
    IN [i \in 1..Len(days_of) |-> MathTask(task, wk_nbr, wk_start, days_of[i])]

RECURSIVE CreateTaskVariables(_, _, _, _)
\* _math_create_variables: the while loop over week_nbr for one task
CreateTaskVariables(task, week_nbr, week_starts, periods) ==
    IF week_nbr >= Len(week_starts) THEN <<>>
    ELSE IF task.type = "MAIN"
    THEN IF task.category.days_parameter = "MULTI_WEEK"
         THEN LET n == NumberOfWeeks(task)
                  ws == {w \in 0..(n - 1) : week_nbr + w < Len(week_starts)}
              IN Flatten([w \in 1..Cardinality(ws) |->
                            WeekMathTasks(task, week_nbr + w - 1, week_starts, periods)])
                 \o CreateTaskVariables(task, week_nbr + n, week_starts, periods)
         ELSE WeekMathTasks(task, week_nbr, week_starts, periods)
              \o CreateTaskVariables(task, week_nbr + 1, week_starts, periods)
    ELSE \* CALL: the inner loop restarts at week 0 and runs to the end
         Flatten([w \in 1..Len(week_starts) |->
                    WeekMathTasks(task, w - 1, week_starts, periods)])

\* _math_create_variables: self.math_tasks
math_create_variables(periods) ==
    LET week_starts == SetToSortedSeq(DOMAIN periods)
    IN [name \in {t.name : t \in Range(tasks)} |->
          LET task == CHOOSE t \in Range(tasks) : t.name = name
          IN CreateTaskVariables(task,
                 IF task.type = "MAIN" THEN task.week_offset ELSE 0,
                 week_starts, periods)]

\* The key of self.y for a MathTask and a physician.
YKey(mt, physician) == <<mt.name, mt.start_date, mt.end_date, physician>>

\* self.math_tasks[name][week_start]
MathTasksOfWeek(name, week_start) ==
    SelectSeq(math_tasks[name], LAMBDA mt : mt.week_start = week_start)

\* Every MathTask created, as a set.
AllMathTasks == UNION {Range(math_tasks[n]) : n \in DOMAIN math_tasks}

\* -------------------------------------------------------------- constraints
\* A constraint of the CP model: kind and the variables it is over.
\*   "eq0"  y = 0             "eq"  y1 = y2          "le1"  y1 + y2 <= 1
\*   "sum_eq1"  sum(ys) = 1   "sum_le1"  sum(ys) <= 1
Constraint(kind, ys) == [kind |-> kind, ys |-> ys]

\* _log_constraint_info
ConstraintInfo(task_name, physician, reason, start_date, end_date) ==
    [task |-> task_name, physician |-> physician, reason |-> reason,
     start_date |-> start_date, end_date |-> end_date]

\* Mutant of NotAvailableFor: only the first day of the task is tested.
NotAvailableForFirstDayOnly(physician, task, math_task) ==
    is_unavailable(physician, math_task.days[1])

\* not is_available, in _math_create_physician_availability_constraints
NotAvailableFor(physician, task, math_task) ==
    \E i \in 1..Len(math_task.days) : is_unavailable(physician, math_task.days[i])

\* Mutant of ExcludedFrom: the task's name is looked up instead of its category's.
ExcludedFromByTaskName(physician, task, math_task) ==
    task.name \in get_physician_by_name(physician).exclusion_tasks

\* the exclusion test of _math_create_physician_eligibility_constraints
ExcludedFrom(physician, task, math_task) ==
    task.category.name \in get_physician_by_name(physician).exclusion_tasks

\* The (week, task, math task, physician) loop shared by the availability
\* (reason "Unavailable") and the eligibility (reason "Ineligible")
\* constraints: the constraints_info entries it logs.
ForbiddenEntries(week_starts, reason) ==
    Flatten([w \in 1..Len(week_starts) |->
      Flatten([t \in 1..Len(tasks) |->
        LET mts == MathTasksOfWeek(tasks[t].name, week_starts[w])
        IN Flatten([m \in 1..Len(mts) |->
             LET hit == SelectSeq(get_all_physicians,
                            LAMBDA ph :
                                IF reason = "Unavailable"
                                THEN NotAvailableFor(ph, tasks[t], mts[m])
                                ELSE ExcludedFrom(ph, tasks[t], mts[m]))
             IN [i \in 1..Len(hit) |->
                   ConstraintInfo(tasks[t].name, hit[i], reason,
                                  mts[m].start_date, mts[m].end_date)]])])])

\* _math_create_physician_availability_constraints
math_create_physician_availability_constraints(week_starts) ==
    ForbiddenEntries(week_starts, "Unavailable")

\* _math_create_physician_eligibility_constraints
math_create_physician_eligibility_constraints(week_starts) ==
    ForbiddenEntries(week_starts, "Ineligible")

\* The y == 0 constraints that go with the logged entries.
ZeroConstraints(entries) ==
    { Constraint("eq0", << <<e.task, e.start_date, e.end_date, e.physician>> >>) :
        e \in Range(entries) }

\* Mutant of IsConsecutive: start dates at most 7 days apart are accepted.
IsConsecutiveWithinSevenDays(block) ==
    \A j \in 1..(Len(block) - 1) : block[j + 1].start_date - block[j].start_date <= 7

\* is_consecutive in _group_math_tasks_into_blocks
IsConsecutive(block) ==
    \A j \in 1..(Len(block) - 1) : block[j + 1].start_date - block[j].start_date = 7

RECURSIVE GroupFrom(_, _, _)
\* _group_math_tasks_into_blocks: the while loop, i 0-based
GroupFrom(i, n, sorted) ==
    IF i > Len(sorted) - n THEN <<>>
    ELSE LET block == SubSeq(sorted, i + 1, i + n)
         IN IF IsConsecutive(block)
            THEN <<block>> \o GroupFrom(i + n, n, sorted)
            ELSE GroupFrom(i + 1, n, sorted)

\* MathSchedule._group_math_tasks_into_blocks
group_math_tasks_into_blocks(task, task_math_tasks) ==
    IF task.category.days_parameter = "MULTI_WEEK" /\ NumberOfWeeks(task) > 1
    THEN GroupFrom(0, NumberOfWeeks(task), SortByStartDate(task_math_tasks))
    ELSE [i \in 1..Len(task_math_tasks) |-> <<task_math_tasks[i]>>]

\* MathSchedule._get_eligible_physicians_for_block
get_eligible_physicians_for_block(block, task) ==
    SelectSeq(get_all_physicians,
        LAMBDA physician :
            /\ \A m \in 1..Len(block) : \A d \in 1..Len(block[m].days) :
                   ~is_unavailable(physician, block[m].days[d])
            /\ is_physician_eligible(physician, task))

\* MathSchedule._intervals_overlap
intervals_overlap(interval1, interval2) ==
    interval1[1] <= interval2[2] /\ interval2[1] <= interval1[2]

\* MathSchedule._get_all_math_tasks_per_task
get_all_math_tasks_per_task(week_starts) ==
    [name \in {t.name : t \in Range(tasks)} |->
        Flatten([w \in 1..Len(week_starts) |-> MathTasksOfWeek(name, week_starts[w])])]

Abs(x) == IF x < 0 THEN -x ELSE x

\* MathSchedule._get_linked_call_math_tasks_multiweek
get_linked_call_math_tasks_multiweek(math_task_block, call_task_name, all_math_tasks_dict, task_category_name) ==
    LET main_start_date == math_task_block[1].start_date
        main_end_date   == math_task_block[Len(math_task_block)].end_date
    IN IF task_category_name = "CTU"
       THEN SelectSeq(all_math_tasks_dict[call_task_name],
                LAMBDA c : \/ Abs(c.start_date - main_start_date) <= 7
                           \/ (0 <= c.start_date - main_end_date
                               /\ c.start_date - main_end_date <= 7))
       ELSE SelectSeq(all_math_tasks_dict[call_task_name],
                LAMBDA c : 0 <= c.start_date - main_end_date
                           /\ c.start_date - main_end_date <= 2)

\* MathSchedule._get_linked_call_math_tasks
get_linked_call_math_tasks(main_math_task, call_task_name, all_math_tasks_dict, task_category_name) ==
    IF task_category_name = "CTU"
    THEN SelectSeq(all_math_tasks_dict[call_task_name],
             LAMBDA c : \/ Abs(c.start_date - main_math_task.start_date) <= 7
                        \/ (0 <= c.start_date - main_math_task.end_date
                            /\ c.start_date - main_math_task.end_date <= 7))
    ELSE SelectSeq(all_math_tasks_dict[call_task_name],
             LAMBDA c : 0 <= c.start_date - main_math_task.end_date
                        /\ c.start_date - main_math_task.end_date <= 2)

\* The CALL MathTasks _handle_linked_call_tasks links to a block of a task.
LinkedCallMathTasks(task, block, linked_call_task_name, all_math_tasks_dict) ==
    IF task.category.days_parameter = "MULTI_WEEK" /\ NumberOfWeeks(task) > 1
    THEN get_linked_call_math_tasks_multiweek(block, linked_call_task_name,
             all_math_tasks_dict, task.category.name)
    ELSE get_linked_call_math_tasks(block[1], linked_call_task_name,
             all_math_tasks_dict, task.category.name)

\* MathSchedule._handle_linked_call_tasks: call_var == main_var, for every
\* linked CALL MathTask and every variable of the block
handle_linked_call_tasks(physician, task, block, linked_call_task_name, all_math_tasks_dict) ==
    LET call_math_tasks ==
            LinkedCallMathTasks(task, block, linked_call_task_name, all_math_tasks_dict)
    IN { Constraint("eq", <<YKey(call_math_tasks[c], physician), YKey(block[m], physician)>>) :
            c \in 1..Len(call_math_tasks), m \in 1..Len(block) }

\* The (start, end, name) tuple appended to physician_task_intervals.
BlockInterval(block) ==
    <<block[1].start_date, block[Len(block)].end_date, block[1].name>>

\* MathSchedule._prevent_overlapping_assignments: the constraints it adds for
\* one physician, whose recorded intervals so far are task_intervals.  After
\* the first MathTask of the block, the block's own interval is in the list.
prevent_overlapping_assignments(physician, block, task_intervals) ==
    LET y_var == YKey(block[1], physician)
        seen(m) == IF m = 1 THEN task_intervals
                   ELSE task_intervals \cup {BlockInterval(block)}
    IN { Constraint("le1", <<y_var, <<other[3], other[1], other[2], physician>> >>) :
           other \in UNION { { o \in seen(m) :
                                 /\ intervals_overlap(
                                      <<block[m].start_date, block[m].end_date>>, o)
                                 /\ <<o[3], o[1], o[2], physician>> \in y_keys } :
                             m \in 1..Len(block) } }

\* The constraints _math_create_assignment_constraints adds for one block that
\* has eligible physicians.
BlockConstraints(task, block, eligible_physicians, intervals, all_math_tasks_dict) ==
    LET total_vars == [i \in 1..Len(eligible_physicians) |->
                          YKey(block[1], eligible_physicians[i])]
        linked_call_task_name == get_linked_call(task)
    IN  { Constraint(IF task.mandatory THEN "sum_eq1" ELSE "sum_le1", total_vars) }
        \cup UNION { { Constraint("eq", <<YKey(block[j], physician),
                                          YKey(block[j + 1], physician)>>) :
                         j \in 1..(Len(block) - 1) }
                     \cup prevent_overlapping_assignments(physician, block,
                                                          intervals[physician])
                     \cup ( IF linked_call_task_name # "None"
                            THEN handle_linked_call_tasks(physician, task, block,
                                     linked_call_task_name, all_math_tasks_dict)
                            ELSE {} ) :
                     physician \in Range(eligible_physicians) }

RECURSIVE AssignBlocks(_, _, _, _, _)
\* _math_create_assignment_constraints: the loop over the blocks of every task,
\* in order; intervals is physician_task_intervals, acc the constraints added
\* and the constraints_info entries logged so far.
AssignBlocks(k, task_blocks, intervals, all_math_tasks_dict, acc) ==
    IF k > Len(task_blocks) THEN acc
    ELSE LET task  == task_blocks[k].task
             block == task_blocks[k].block
             eligible_physicians == get_eligible_physicians_for_block(block, task)
         IN IF eligible_physicians = <<>>
            THEN AssignBlocks(k + 1, task_blocks, intervals, all_math_tasks_dict,
                   [acc EXCEPT !.info =
                      IF task.mandatory
                      THEN Append(@, ConstraintInfo(task.name, "None",
                                        "NoEligiblePhysicians",
                                        block[1].start_date,
                                        block[Len(block)].end_date))
                      ELSE @])
            ELSE AssignBlocks(k + 1, task_blocks,
                   [ph \in DOMAIN intervals |->
                      IF ph \in Range(eligible_physicians)
                      THEN intervals[ph] \cup {BlockInterval(block)}
                      ELSE intervals[ph]],
                   all_math_tasks_dict,
                   [acc EXCEPT !.cons = @ \cup
                      BlockConstraints(task, block, eligible_physicians,
                                       intervals, all_math_tasks_dict)])

\* The blocks of every task, in the order the tasks are registered.
TaskBlocks ==
    Flatten([t \in 1..Len(tasks) |->
      LET blocks == group_math_tasks_into_blocks(tasks[t], math_tasks[tasks[t].name])
      IN [b \in 1..Len(blocks) |-> [task |-> tasks[t], block |-> blocks[b]]]])

\* MathSchedule._math_create_assignment_constraints
math_create_assignment_constraints(week_starts) ==
    AssignBlocks(1, TaskBlocks,
                 [ph \in Range(get_all_physicians) |-> {}],
                 get_all_math_tasks_per_task(week_starts),
                 [cons |-> {}, info |-> <<>>])

\* MathSchedule._math_create_constraints: constraints and constraints_info
math_create_constraints(periods) ==
    LET week_starts == SetToSortedSeq(DOMAIN periods)
        unavailable == math_create_physician_availability_constraints(week_starts)
        ineligible  == math_create_physician_eligibility_constraints(week_starts)
        assignment  == math_create_assignment_constraints(week_starts)
    IN [cons |-> ZeroConstraints(unavailable) \cup ZeroConstraints(ineligible)
                 \cup assignment.cons,
        info |-> unavailable \o ineligible \o assignment.info]

\* ------------------------------------------------------------------ solver
\* Number of variables of a constraint that are set in T.
CountSet(c, T) == Cardinality({i \in 1..Len(c.ys) : c.ys[i] \in T})

\* The constraint c holds under the assignment T (the variables with value 1).
Satisfies(T, c) ==
    CASE c.kind = "eq0"     -> c.ys[1] \notin T
      [] c.kind = "eq"      -> (c.ys[1] \in T) <=> (c.ys[2] \in T)
      [] c.kind = "le1"     -> ~(c.ys[1] \in T /\ c.ys[2] \in T)
      [] c.kind = "sum_eq1" -> CountSet(c, T) = 1
      [] c.kind = "sum_le1" -> CountSet(c, T) <= 1

\* c cannot hold any more once the variables in D are decided with T set.
Refuted(c, D, T) ==
    CASE c.kind = "eq0"     -> c.ys[1] \in T
      [] c.kind = "eq"      -> /\ c.ys[1] \in D /\ c.ys[2] \in D
                               /\ (c.ys[1] \in T) # (c.ys[2] \in T)
      [] c.kind = "le1"     -> c.ys[1] \in T /\ c.ys[2] \in T
      [] c.kind = "sum_eq1" -> \/ CountSet(c, T) > 1
                               \/ (Range(c.ys) \subseteq D /\ CountSet(c, T) = 0)
      [] c.kind = "sum_le1" -> CountSet(c, T) > 1

RECURSIVE Search(_, _, _, _)
\* Every assignment of the variables in rest that extends (D, T) and satisfies cons.
Search(rest, D, T, cons) ==
    IF rest = <<>> THEN {T}
    ELSE LET k     == Head(rest)
             about == {c \in cons : k \in Range(c.ys)}
             ok(T2) == \A c \in about : ~Refuted(c, D \cup {k}, T2)
         IN (IF ok(T) THEN Search(Tail(rest), D \cup {k}, T, cons) ELSE {})
            \cup
            (IF ok(T \cup {k}) THEN Search(Tail(rest), D \cup {k}, T \cup {k}, cons) ELSE {})

\* The variables of the model in creation order of their MathTasks.
KeySeq(week_starts) ==
    Flatten([w \in 1..Len(week_starts) |->
      Flatten([t \in 1..Len(tasks) |->
        LET mts == MathTasksOfWeek(tasks[t].name, week_starts[w])
        IN Flatten([m \in 1..Len(mts) |->
             [i \in 1..Len(physicians) |-> YKey(mts[m], physicians[i].name)]])])])

\* The answers math_solver.solve may give: every assignment of the boolean
\* variables that satisfies all constraints of the model.
Solutions ==
    Search(KeySeq(SetToSortedSeq(DOMAIN relevant_periods)), {}, {}, constraints)

\* ---------------------------------------------------------- materialisation
\* The record _add_to_schedule appends.
ScheduleRecord(task, days, score) ==
    [task |-> task, days |-> days, start_date |-> days[1],
     end_date |-> days[Len(days)], score |-> score]

\* Mutant of math_set_solution: self.schedule is not emptied first, the new
\* records are appended to the lists already there.
math_set_solution_keeping_schedule(periods) ==
    LET week_starts == SetToSortedSeq(DOMAIN periods)
        records(physician) ==
            (IF physician \in DOMAIN schedule THEN schedule[physician] ELSE <<>>)
            \o Flatten([w \in 1..Len(week_starts) |->
              Flatten([t \in 1..Len(tasks) |->
                LET mts == SelectSeq(MathTasksOfWeek(tasks[t].name, week_starts[w]),
                               LAMBDA mt : YKey(mt, physician) \in solution)
                IN [m \in 1..Len(mts) |-> ScheduleRecord(tasks[t], mts[m].days, 0)]])])
    IN [physician \in {ph \in Range(get_all_physicians) : records(ph) # <<>>}
          |-> records(physician)]

\* MathSchedule._math_set_solution: the new self.schedule
math_set_solution(periods) ==
    LET week_starts == SetToSortedSeq(DOMAIN periods)
        records(physician) ==
            Flatten([w \in 1..Len(week_starts) |->
              Flatten([t \in 1..Len(tasks) |->
                LET mts == SelectSeq(MathTasksOfWeek(tasks[t].name, week_starts[w]),
                               LAMBDA mt : YKey(mt, physician) \in solution)
                IN [m \in 1..Len(mts) |-> ScheduleRecord(tasks[t], mts[m].days, 0)]])])
    IN [physician \in {ph \in Range(get_all_physicians) : records(ph) # <<>>}
          |-> records(physician)]

\* ------------------------------------------------------- schedule files
\* A Python value that is a str, and one that is a datetime.date.
PyStr(s)  == [type |-> "str", value |-> s]
PyDate(d) == [type |-> "date", value |-> d]

\* Two decimal digits of n.
TwoDigits(n) == IF n < 10 THEN "0" \o ToString(n) ELSE ToString(n)

\* date.isoformat(), which is also str(date): day 0 is Monday 2025-01-06
isoformat(d) ==
    IF d + 6 <= 31 THEN "2025-01-" \o TwoDigits(d + 6)
    ELSE "2025-02-" \o TwoDigits(d + 6 - 31)

\* The dates the model writes and reads: 2025-01-06 .. 2025-02-28.
DateRange == 0..53

\* date.fromisoformat(s), for the well-formed strings of the files
fromisoformat(s) == CHOOSE d \in DateRange : isoformat(d) = s

\* task_manager.get_task(name): the registered task of that name, or None
NoTask == [name |-> "None"]
get_task(name) ==
    IF \E t \in Range(tasks) : t.name = name
    THEN CHOOSE t \in Range(tasks) : t.name = name
    ELSE NoTask

\* MathSchedule.save_schedule: what json.dump(..., default=str) writes for a
\* schedule whose records hold dates
save_schedule(sched) ==
    [physician \in DOMAIN sched |->
        [i \in 1..Len(sched[physician]) |->
            LET task == sched[physician][i]
            IN [task       |-> task.task.name,
                days       |-> [j \in 1..Len(task.days) |-> isoformat(task.days[j])],
                start_date |-> isoformat(task.start_date),
                end_date   |-> isoformat(task.end_date),
                score      |-> task.score]]]

\* _load_schedule_from_file: the schedule built from the JSON contents;
\* start_date, end_date and task are converted, the other keys are kept
LoadedSchedule(loaded_schedule) ==
    [k \in DOMAIN loaded_schedule |->
        [i \in 1..Len(loaded_schedule[k]) |->
            LET t == loaded_schedule[k][i]
            IN [task       |-> get_task(t.task),
                days       |-> [j \in 1..Len(t.days) |-> PyStr(t.days[j])],
                start_date |-> fromisoformat(t.start_date),
                end_date   |-> fromisoformat(t.end_date),
                score      |-> t.score]]]

\* Mutant of DaysAreContinuous: the last pair of days is not compared.
DaysAreContinuousButLast(days) ==
    \A i \in 1..(Len(days) - 2) :
        fromisoformat(days[i + 1].value) = fromisoformat(days[i].value) + 1

\* _load_schedule_from_file: the assertions of the loop over days
DaysAreContinuous(days) ==
    \A i \in 1..(Len(days) - 1) :
        fromisoformat(days[i + 1].value) = fromisoformat(days[i].value) + 1

\* _load_schedule_from_file: the assertions on one record
RecordAsserts(task_dict) ==
    /\ task_dict.task \in Range(tasks)
    /\ task_dict.start_date <= task_dict.end_date
    /\ fromisoformat(task_dict.days[1].value) = task_dict.start_date
    /\ fromisoformat(task_dict.days[Len(task_dict.days)].value) = task_dict.end_date
    /\ DaysAreContinuous(task_dict.days)

\* _load_schedule_from_file: no assertion of the test of the loaded schedule fails
ScheduleAsserts(sched) ==
    \A physician \in DOMAIN sched :
        /\ physician \in Range(get_all_physicians)
        /\ \A i \in 1..Len(sched[physician]) : RecordAsserts(sched[physician][i])

\* One record of a schedule JSON file.
FileRecord(task_name, start_date, end_date, days) ==
    [task       |-> task_name,
     days       |-> [j \in 1..Len(days) |-> isoformat(days[j])],
     start_date |-> isoformat(start_date),
     end_date   |-> isoformat(end_date),
     score      |-> 0]

\* The schedule files a user supplies: every file of one record built from a
\* few physicians, task names, start dates and day lists, and some files of
\* two records.
UserFiles ==
    { physician :> << FileRecord(task_name, start_date, 4, days) >> :
        physician \in {"P1", "P9"}, task_name \in {"ER_1", "NOPE"},
        start_date \in {0, 1, 5},
        days \in { Days(0, 4), Days(1, 4), Days(0, 3), <<0, 1, 2, 4>>, <<5, 4>> } }
    \cup { "P1" :> << FileRecord("ER_1", 0, 4, Days(0, 4)),
                      FileRecord("ER_CALL", 5, 6, Days(5, 6)) >>,
           "P1" :> << FileRecord("ER_1", 0, 4, Days(0, 4)),
                      FileRecord("ER_2", 0, 4, Days(0, 4)) >>,
           "P1" :> << FileRecord("ER_1", 0, 4, Days(0, 4)),
                      FileRecord("ER_1", 7, 11, <<7, 8, 10, 11>>) >>,
           ("P1" :> << FileRecord("ER_1", 0, 4, Days(0, 4)) >>)
               @@ ("P2" :> << FileRecord("ER_1", 7, 11, Days(7, 11)) >>) }

\* The task registrations of the runs that load and save schedules.
IOTaskLists == { <<ER_1, ER_CALL>>, <<ER_1, ER_2>>, <<ER_1, ER_2, ER_CALL>>, <<CTU_A>> }

\* ------------------------------------------------------------------ actions
Init ==
    /\ tasks \in TaskLists
    /\ physicians \in PhysicianLists
    /\ unavailability_periods \in UnavailabilityChoices
    /\ calendar \in Calendars
    /\ scheduling_period = <<>>
    /\ pc = "idle"
    /\ relevant_periods = <<>>
    /\ math_tasks = <<>>
    /\ y_keys = {}
    /\ constraints = {}
    /\ constraints_info = <<>>
    /\ status = "NONE"
    /\ solution = {}
    /\ schedule = <<>>
    /\ raised = "None"
    /\ use_initial_schedule = FALSE
    /\ solution_hint = [vars |-> <<>>, values |-> <<>>]
    /\ file = <<>>
    /\ is_unavailable_call = NoCall
    /\ sweep = NoSweep
    /\ check_conflicts_call = NoConflictsCall

\* MathSchedule.set_scheduling_period(start_date, end_date): the period starts
\* with the calendar and ends with one of its weeks (the drivers pass the
\* calendar's own end date, n = Cardinality(DOMAIN calendar))
SetSchedulingPeriod ==
    /\ pc = "idle"
    /\ scheduling_period = <<>>
    /\ \E n \in 1..Cardinality(DOMAIN calendar) :
           scheduling_period' = <<0, 7 * n - 1>>
    /\ UNCHANGED <<tasks, physicians, unavailability_periods, calendar, pc,
                   relevant_periods, math_tasks, y_keys, constraints,
                   constraints_info, status, solution, schedule, raised>>
    /\ UNCHANGED io

\* generate_schedule without a scheduling period: ValueError
GenerateNoPeriod ==
    /\ pc = "idle"
    /\ scheduling_period = <<>>
    /\ pc' = "done"
    /\ raised' = "ValueError"
    /\ UNCHANGED <<inputs, relevant_periods, math_tasks, y_keys, constraints,
                   constraints_info, status, solution, schedule>>
    /\ UNCHANGED io

\* generate_schedule up to the filtering of the relevant periods
GenerateBegin ==
    /\ pc = "idle"
    /\ scheduling_period # <<>>
    /\ use_initial_schedule => schedule # <<>>
    /\ relevant_periods' =
           filter_relevant_periods(calendar, scheduling_period[1],
                                   extend_scheduling_period)
    /\ pc' = "variables"
    /\ UNCHANGED <<inputs, math_tasks, y_keys, constraints, constraints_info,
                   status, solution, schedule, raised>>
    /\ UNCHANGED io

\* self._math_create_variables(periods=relevant_periods)
MathCreateVariables ==
    /\ pc = "variables"
    /\ math_tasks' = math_create_variables(relevant_periods)
    /\ y_keys' = { YKey(mt, ph) :
                     mt \in UNION {Range(math_tasks'[n]) : n \in DOMAIN math_tasks'},
                     ph \in Range(get_all_physicians) }
    /\ pc' = "constraints"
    /\ UNCHANGED <<inputs, relevant_periods, constraints, constraints_info,
                   status, solution, schedule, raised>>
    /\ UNCHANGED io

\* self._math_create_constraints(periods=relevant_periods)
MathCreateConstraints ==
    /\ pc = "constraints"
    /\ LET built == math_create_constraints(relevant_periods)
       IN /\ constraints' = built.cons
          /\ constraints_info' = constraints_info \o built.info
    /\ pc' = IF use_initial_schedule THEN "hint" ELSE "solve"
    /\ UNCHANGED <<inputs, relevant_periods, math_tasks, y_keys,
                   status, solution, schedule, raised>>
    /\ UNCHANGED io

\* status = self.math_solver.solve(self.math_model)
SolverSolve ==
    /\ pc = "solve"
    /\ LET answers == Solutions
       IN IF answers = {}
          THEN status' = "INFEASIBLE" /\ solution' = {}
          ELSE status' = "OPTIMAL" /\ solution' \in answers
    /\ pc' = "solved"
    /\ UNCHANGED <<inputs, relevant_periods, math_tasks, y_keys, constraints,
                   constraints_info, schedule, raised>>
    /\ UNCHANGED io

\* status is OPTIMAL or FEASIBLE: self._math_set_solution(periods=relevant_periods)
MathSetSolution ==
    /\ pc = "solved"
    /\ status = "OPTIMAL" \/ status = "FEASIBLE"
    /\ schedule' = math_set_solution(relevant_periods)
    /\ pc' = "done"
    /\ UNCHANGED <<inputs, relevant_periods, math_tasks, y_keys, constraints,
                   constraints_info, status, solution, raised>>
    /\ UNCHANGED io

\* Mutant of ScheduleInfeasible: the failed generation empties self.schedule.
ScheduleInfeasibleClearingSchedule ==
    /\ pc = "solved"
    /\ ~(status = "OPTIMAL" \/ status = "FEASIBLE")
    /\ pc' = "done"
    /\ schedule' = <<>>
    /\ UNCHANGED <<inputs, relevant_periods, math_tasks, y_keys, constraints,
                   constraints_info, status, solution, raised>>
    /\ UNCHANGED io

\* any other status: logging.info("Schedule infeasible"), then a normal return
ScheduleInfeasible ==
    /\ pc = "solved"
    /\ ~(status = "OPTIMAL" \/ status = "FEASIBLE")
    /\ pc' = "done"
    /\ UNCHANGED <<inputs, relevant_periods, math_tasks, y_keys, constraints,
                   constraints_info, status, solution, schedule, raised>>
    /\ UNCHANGED io

Next ==
    \/ SetSchedulingPeriod
    \/ GenerateNoPeriod
    \/ GenerateBegin
    \/ MathCreateVariables
    \/ MathCreateConstraints
    \/ SolverSolve
    \/ MathSetSolution
    \/ ScheduleInfeasible

Spec == Init /\ [][Next]_vars

\* -------------------------------------------- loading, saving and the hint
\* The keys _math_load_initial_schedule looks up in self.y, in order.
InitialScheduleKeys ==
    LET names == SelectSeq(get_all_physicians, LAMBDA ph : ph \in DOMAIN schedule)
    IN Flatten([n \in 1..Len(names) |->
         [i \in 1..Len(schedule[names[n]]) |->
            LET task_dict == schedule[names[n]][i]
            IN <<task_dict.task.name, task_dict.start_date, task_dict.end_date,
                 names[n]>>]])

\* Mutant of math_load_initial_schedule: one variable is hinted per physician.
math_load_initial_schedule_first_record(keys) ==
    LET firsts == SelectSeq(keys, LAMBDA k :
                     \A j \in 1..Len(keys) :
                        keys[j][4] = k[4] => keys[j][2] >= k[2])
    IN [vars   |-> solution_hint.vars \o firsts,
        values |-> solution_hint.values \o [i \in 1..Len(firsts) |-> 1]]

\* MathSchedule._math_load_initial_schedule: solution_hint after the extends
math_load_initial_schedule(keys) ==
    [vars   |-> solution_hint.vars \o keys,
     values |-> solution_hint.values \o [i \in 1..Len(keys) |-> 1]]

InitIO ==
    /\ tasks \in IOTaskLists
    /\ physicians = PreferencePhysicians
    /\ unavailability_periods = <<>>
    /\ calendar \in Calendars
    /\ scheduling_period = <<>>
    /\ pc = "idle"
    /\ relevant_periods = <<>>
    /\ math_tasks = <<>>
    /\ y_keys = {}
    /\ constraints = {}
    /\ constraints_info = <<>>
    /\ status = "NONE"
    /\ solution = {}
    /\ schedule = <<>>
    /\ raised = "None"
    /\ use_initial_schedule \in BOOLEAN
    /\ solution_hint = [vars |-> <<>>, values |-> <<>>]
    /\ file = <<>>
    /\ is_unavailable_call = NoCall
    /\ sweep = NoSweep
    /\ check_conflicts_call = NoConflictsCall

\* MathSchedule.load_schedule(filename): a user's file before generating, or
\* the file save_schedule has just written
LoadSchedule ==
    /\ pc \in {"idle", "saved"}
    /\ \E f \in (IF pc = "saved" THEN {file} ELSE UserFiles) :
          /\ file' = f
          /\ IF ScheduleAsserts(LoadedSchedule(f))
             THEN /\ schedule' = LoadedSchedule(f)
                  /\ pc' = IF pc = "saved" THEN "loaded" ELSE pc
                  /\ raised' = raised
             ELSE /\ schedule' = schedule
                  /\ pc' = "done"
                  /\ raised' = "AssertionError"
    /\ UNCHANGED <<inputs, relevant_periods, math_tasks, y_keys, constraints,
                   constraints_info, status, solution, use_initial_schedule,
                   solution_hint, is_unavailable_call, sweep, check_conflicts_call>>

\* MathSchedule.save_schedule(filename), after a schedule was generated
SaveSchedule ==
    /\ pc = "done"
    /\ status = "OPTIMAL" \/ status = "FEASIBLE"
    /\ file' = save_schedule(schedule)
    /\ pc' = "saved"
    /\ UNCHANGED <<inputs, relevant_periods, math_tasks, y_keys, constraints,
                   constraints_info, status, solution, schedule, raised,
                   use_initial_schedule, solution_hint, is_unavailable_call,
                   sweep, check_conflicts_call>>

\* generate_schedule(use_initial_schedule=True) with an empty self.schedule:
\* the assert fails
GenerateNoInitialSchedule ==
    /\ pc = "idle"
    /\ scheduling_period # <<>>
    /\ use_initial_schedule /\ schedule = <<>>
    /\ pc' = "done"
    /\ raised' = "AssertionError"
    /\ UNCHANGED <<inputs, relevant_periods, math_tasks, y_keys, constraints,
                   constraints_info, status, solution, schedule>>
    /\ UNCHANGED io

\* if use_initial_schedule: self._math_load_initial_schedule(); a key that is
\* not in self.y ends it with RuntimeError before the hint is touched
MathLoadInitialSchedule ==
    /\ pc = "hint"
    /\ IF \A i \in 1..Len(InitialScheduleKeys) : InitialScheduleKeys[i] \in y_keys
       THEN /\ solution_hint' = math_load_initial_schedule(InitialScheduleKeys)
            /\ pc' = "solve"
            /\ raised' = raised
       ELSE /\ solution_hint' = solution_hint
            /\ pc' = "done"
            /\ raised' = "RuntimeError"
    /\ UNCHANGED <<inputs, relevant_periods, math_tasks, y_keys, constraints,
                   constraints_info, status, solution, schedule,
                   use_initial_schedule, file, is_unavailable_call,
                   sweep, check_conflicts_call>>

NextIO ==
    \/ Next
    \/ LoadSchedule
    \/ SaveSchedule
    \/ GenerateNoInitialSchedule
    \/ MathLoadInitialSchedule

SpecIO == InitIO /\ [][NextIO]_vars

\* ------------------------------------------------- calls of is_unavailable
\* The entries an unavailability list is made of.
UnavailabilityEntries ==
    { SingleDate(2), Interval(1, 3), Interval(4, 4), Interval(5, 6), Interval(6, 5) }

\* The unavailability lists: at most two entries.
UnavailabilityLists ==
    { <<>> } \cup { <<e>> : e \in UnavailabilityEntries }
    \cup { <<e1, e2>> : e1 \in UnavailabilityEntries, e2 \in UnavailabilityEntries }

InitUnavailable ==
    /\ tasks = <<ER_1>>
    /\ physicians = PreferencePhysicians
    /\ unavailability_periods \in
           { "P1" :> l : l \in UnavailabilityLists }
           \cup { <<>>, ("P1" :> << Interval(1, 3) >>) @@ ("P2" :> << SingleDate(0) >>) }
    /\ calendar = 0 :> StandardWeek(0)
    /\ scheduling_period = <<>>
    /\ pc = "idle"
    /\ relevant_periods = <<>>
    /\ math_tasks = <<>>
    /\ y_keys = {}
    /\ constraints = {}
    /\ constraints_info = <<>>
    /\ status = "NONE"
    /\ solution = {}
    /\ schedule = <<>>
    /\ raised = "None"
    /\ use_initial_schedule = FALSE
    /\ solution_hint = [vars |-> <<>>, values |-> <<>>]
    /\ file = <<>>
    /\ is_unavailable_call = NoCall
    /\ sweep = NoSweep
    /\ check_conflicts_call = NoConflictsCall

\* physician_manager.is_unavailable(name, check_date)
IsUnavailableCall ==
    /\ \E name \in {"P1", "P2"} : \E check_date \in 0..7 :
          is_unavailable_call' =
              [name |-> name, check_date |-> check_date,
               returned |-> is_unavailable(name, check_date)]
    /\ UNCHANGED <<inputs, pc, relevant_periods, math_tasks, y_keys, constraints,
                   constraints_info, status, solution, schedule, raised,
                   use_initial_schedule, solution_hint, file,
                   sweep, check_conflicts_call>>

NextUnavailable == IsUnavailableCall

SpecUnavailable == InitUnavailable /\ [][NextUnavailable]_vars

\* ------------------------------------------------- runs on multi-week groups
\* The task registrations of the runs on multi-week groups.
GroupTaskLists ==
    { <<CTU_A>>, <<CTU_B>>, <<CTU_A, CTU_B>>, <<CTU3_B>>, <<ER_1, ER_2, ER_CALL>> }

InitGroups ==
    /\ tasks \in GroupTaskLists
    /\ physicians = PreferencePhysicians
    /\ unavailability_periods = <<>>
    /\ calendar \in GroupCalendars
    /\ scheduling_period = <<>>
    /\ pc = "idle"
    /\ relevant_periods = <<>>
    /\ math_tasks = <<>>
    /\ y_keys = {}
    /\ constraints = {}
    /\ constraints_info = <<>>
    /\ status = "NONE"
    /\ solution = {}
    /\ schedule = <<>>
    /\ raised = "None"
    /\ use_initial_schedule = FALSE
    /\ solution_hint = [vars |-> <<>>, values |-> <<>>]
    /\ file = <<>>
    /\ is_unavailable_call = NoCall
    /\ sweep = NoSweep
    /\ check_conflicts_call = NoConflictsCall

SpecGroups == InitGroups /\ [][Next]_vars

\* ----------------------------------------- the mutually exclusive sweep
\* A block of the lists given to the sweep: a MathTask of the task on the
\* days s..e.
SweepBlock(task, s, e) == MathTask(task, 0, 0, Days(s, e))

\* The lists of day ranges that are sorted by start_date and do not overlap.
SweepRanges ==
    LET ranges == {r \in (0..MaxSweepDay) \X (0..MaxSweepDay) : r[1] <= r[2]}
    IN UNION { { l \in [1..n -> ranges] :
                   \A k \in 1..(n - 1) : l[k][2] < l[k + 1][1] } :
               n \in 0..MaxSweepLen }

\* The block lists of a task over the lists of day ranges.
SweepLists(task) ==
    { [k \in 1..Len(l) |-> SweepBlock(task, l[k][1], l[k][2])] : l \in SweepRanges }

\* The calls of the sweep: A a list of blocks of task_a, B one of task_b.
SweepCalls(task_a, task_b) ==
    { [A |-> A, B |-> B, i |-> 0, j |-> 0, added |-> {}, steps |-> 0] :
        A \in SweepLists(task_a), B \in SweepLists(task_b) }

Max(a, b) == IF a >= b THEN a ELSE b
Min(a, b) == IF a <= b THEN a ELSE b

\* Mutant of AdvanceA: the interval with the smallest start is removed.
AdvanceAByStartDate(a, b) == a.start_date < b.start_date

\* "Remove the interval with the smallest endpoint": i is advanced, else j
AdvanceA(a, b) == a.end_date < b.end_date

\* One iteration of the while loop of
\* _create_mutually_exclusive_math_tasks_constraints (i, j 0-based)
sweep_step(w) ==
    LET a  == w.A[w.i + 1]
        b  == w.B[w.j + 1]
        lo == Max(a.start_date, b.start_date)
        hi == Min(a.end_date, b.end_date)
    IN [w EXCEPT
          !.added = IF lo <= hi
                    THEN @ \cup { Constraint("le1", <<YKey(a, physician), YKey(b, physician)>>) :
                                    physician \in Range(get_all_physicians) }
                    ELSE @,
          !.i = IF AdvanceA(a, b) THEN @ + 1 ELSE @,
          !.j = IF AdvanceA(a, b) THEN @ ELSE @ + 1,
          !.steps = @ + 1]

InitSweep ==
    /\ tasks = <<ER_1, VASC_1>>
    /\ physicians = PreferencePhysicians
    /\ unavailability_periods = <<>>
    /\ calendar = 0 :> StandardWeek(0)
    /\ scheduling_period = <<>>
    /\ pc = "idle"
    /\ relevant_periods = <<>>
    /\ math_tasks = <<>>
    /\ y_keys = {}
    /\ constraints = {}
    /\ constraints_info = <<>>
    /\ status = "NONE"
    /\ solution = {}
    /\ schedule = <<>>
    /\ raised = "None"
    /\ use_initial_schedule = FALSE
    /\ solution_hint = [vars |-> <<>>, values |-> <<>>]
    /\ file = <<>>
    /\ is_unavailable_call = NoCall
    /\ sweep \in SweepCalls(ER_1, VASC_1)
    /\ check_conflicts_call = NoConflictsCall

\* while i < len(A) and j < len(B): one iteration
SweepStep ==
    /\ sweep.i < Len(sweep.A) /\ sweep.j < Len(sweep.B)
    /\ sweep' = sweep_step(sweep)
    /\ UNCHANGED <<inputs, pc, relevant_periods, math_tasks, y_keys, constraints,
                   constraints_info, status, solution, schedule, raised,
                   use_initial_schedule, solution_hint, file, is_unavailable_call,
                   check_conflicts_call>>

NextSweep == SweepStep

SpecSweep == InitSweep /\ [][NextSweep]_vars

\* ------------------------------------------------------- check_conflicts
\* Mutant of ConflictBetween: records that share only one day are let through.
ConflictBetweenStrict(task, next_task) == task.end_date > next_task.start_date

\* sorted_tasks[i]['end_date'] >= sorted_tasks[i + 1]['start_date']
ConflictBetween(task, next_task) == task.end_date >= next_task.start_date

\* MathSchedule.check_conflicts: one entry (physician, task, next task) per
\* conflict message, the physicians taken in registration order
check_conflicts ==
    LET names == SelectSeq(get_all_physicians, LAMBDA ph : ph \in DOMAIN schedule)
    IN Flatten([n \in 1..Len(names) |->
         LET sorted_tasks == SortByStartDate(schedule[names[n]])
             hits == {i \in 1..(Len(sorted_tasks) - 1) :
                        ConflictBetween(sorted_tasks[i], sorted_tasks[i + 1])}
             hit_seq == SetToSortedSeq(hits)
         IN [k \in 1..Len(hit_seq) |->
               <<names[n], sorted_tasks[hit_seq[k]].task.name,
                 sorted_tasks[hit_seq[k] + 1].task.name>>]])

\* The record lists given to check_conflicts: up to MaxRecords records in any
\* order, each with start_date <= end_date, of the tasks first and second in
\* turn.
RecordLists(first, second) ==
    LET ranges == {r \in (0..MaxRecordDay) \X (0..MaxRecordDay) : r[1] <= r[2]}
    IN UNION { { [k \in 1..n |->
                    ScheduleRecord(IF k % 2 = 1 THEN first ELSE second,
                                   Days(l[k][1], l[k][2]), 0)] :
                   l \in [1..n -> ranges] } :
               n \in 0..MaxRecords }

\* The schedules given to check_conflicts: the records of P1, alone or next
\* to a record of P2 that covers every day.
ConflictSchedules(first, second, other) ==
    { "P1" :> l : l \in RecordLists(first, second) }
    \cup { ("P1" :> l) @@ ("P2" :> << ScheduleRecord(other, Days(0, MaxRecordDay), 0) >>) :
             l \in RecordLists(first, second) }

InitConflicts ==
    /\ tasks = <<ER_1, ER_2, VASC_1>>
    /\ physicians = PreferencePhysicians
    /\ unavailability_periods = <<>>
    /\ calendar = 0 :> StandardWeek(0)
    /\ scheduling_period = <<>>
    /\ pc = "idle"
    /\ relevant_periods = <<>>
    /\ math_tasks = <<>>
    /\ y_keys = {}
    /\ constraints = {}
    /\ constraints_info = <<>>
    /\ status = "NONE"
    /\ solution = {}
    /\ schedule \in ConflictSchedules(ER_1, VASC_1, ER_2)
    /\ raised = "None"
    /\ use_initial_schedule = FALSE
    /\ solution_hint = [vars |-> <<>>, values |-> <<>>]
    /\ file = <<>>
    /\ is_unavailable_call = NoCall
    /\ sweep = NoSweep
    /\ check_conflicts_call = NoConflictsCall

\* conflicts = schedule.check_conflicts()
CheckConflicts ==
    /\ check_conflicts_call' = [called |-> TRUE, returned |-> check_conflicts]
    /\ UNCHANGED <<inputs, pc, relevant_periods, math_tasks, y_keys, constraints,
                   constraints_info, status, solution, schedule, raised,
                   use_initial_schedule, solution_hint, file, is_unavailable_call,
                   sweep>>

NextConflicts == CheckConflicts

SpecConflicts == InitConflicts /\ [][NextConflicts]_vars

\* ============================================================== properties
\* generate_schedule has returned after a solve that found a solution.
Produced == pc = "done" /\ (status = "OPTIMAL" \/ status = "FEASIBLE")

PhysicianNames == {physicians[i].name : i \in 1..Len(physicians)}

\* The assignment records of a physician in self.schedule.
Assignments(p) == IF p \in DOMAIN schedule THEN schedule[p] ELSE <<>>

\* The schedule has a record giving the block mt to physician p.
Holds(p, mt) ==
    \E i \in 1..Len(Assignments(p)) :
        Assignments(p)[i].task.name = mt.name /\ Assignments(p)[i].days = mt.days

\* day lies in an unavailability entry of p, both ends included.
InUnavailability(p, day) ==
    /\ p \in DOMAIN unavailability_periods
    /\ \E e \in Range(unavailability_periods[p]) :
           e.start_date <= day /\ day <= e.end_date

UnavailableOn(p, mt) == \E day \in Range(mt.days) : InUnavailability(p, day)

ExcludedCategory(p, category_name) ==
    \E ph \in Range(physicians) : ph.name = p /\ category_name \in ph.exclusion_tasks

TaskNamed(name) == CHOOSE t \in Range(tasks) : t.name = name

\* E(b): the physicians neither unavailable on a day of b nor excluded from it.
E(mt) == {p \in PhysicianNames :
            ~UnavailableOn(p, mt)
            /\ ~ExcludedCategory(p, TaskNamed(mt.name).category.name)}

\* C1: no-overlap -- in a produced schedule, any two distinct assignments of
\* one physician have disjoint days.
C1_NoOverlap ==
    Produced =>
        \A p \in DOMAIN schedule : \A i, j \in 1..Len(schedule[p]) :
            i # j => Range(schedule[p][i].days) \cap Range(schedule[p][j].days) = {}

\* C2: respect of unavailability -- a physician unavailable on a day of a block
\* has y = 0 for it in every solution, and no record of the produced schedule
\* has a day inside an unavailability entry of its physician.
C2_UnavailabilityRespected ==
    /\ (pc \in {"solved", "done"} /\ status = "OPTIMAL") =>
           \A mt \in AllMathTasks : \A p \in PhysicianNames :
               UnavailableOn(p, mt) => YKey(mt, p) \notin solution
    /\ Produced =>
           \A p \in DOMAIN schedule : \A i \in 1..Len(schedule[p]) :
               \A day \in Range(schedule[p][i].days) : ~InUnavailability(p, day)

\* C2 witness: a schedule was produced in which a physician who is unavailable
\* up to and including the first day of a block holds another block, and the
\* block itself went to somebody else.
C2_Witness ==
    /\ Produced
    /\ \E p, q \in PhysicianNames : \E mt \in AllMathTasks :
          /\ p # q /\ p \in DOMAIN schedule /\ Holds(q, mt)
          /\ p \in DOMAIN unavailability_periods
          /\ \E e \in Range(unavailability_periods[p]) :
                e.kind = "tuple" /\ e.end_date = mt.start_date

\* C3: respect of exclusions -- a physician excluded from a block's category
\* has y = 0 for it in every solution, and no record of the produced schedule
\* is of a category its physician is excluded from.
C3_ExclusionsRespected ==
    /\ (pc \in {"solved", "done"} /\ status = "OPTIMAL") =>
           \A mt \in AllMathTasks : \A p \in PhysicianNames :
               ExcludedCategory(p, TaskNamed(mt.name).category.name)
                   => YKey(mt, p) \notin solution
    /\ Produced =>
           \A p \in DOMAIN schedule : \A i \in 1..Len(schedule[p]) :
               ~ExcludedCategory(p, schedule[p][i].task.category.name)

\* C3 witness: a schedule was produced in which a physician excluded from a
\* category that is among their qualifications holds a block of another
\* category, and a block of the excluded category is held by a physician who
\* has that category in restricted_tasks.
C3_Witness ==
    /\ Produced
    /\ \E ph, qh \in Range(physicians) : \E c \in ph.exclusion_tasks :
          /\ c \in ph.qualifications
          /\ ph.name \in DOMAIN schedule
          /\ c \in qh.restricted_tasks
          /\ \E i \in 1..Len(Assignments(qh.name)) :
                Assignments(qh.name)[i].task.category.name = c

\* C4: mandatory coverage -- in a produced schedule, every block of a mandatory
\* task that has at least one physician neither unavailable on one of its days
\* nor excluded from its category is held by exactly one physician.
C4_MandatoryCoverage ==
    Produced =>
        \A mt \in AllMathTasks :
            (mt.mandatory /\ E(mt) # {}) =>
                Cardinality({p \in PhysicianNames : Holds(p, mt)}) = 1

\* The MAIN tasks registered and linked to the CALL task call_task_name.
LinkedMainTasks(call_task_name) ==
    {t \in Range(tasks) : t.type = "MAIN" /\ <<t.name, call_task_name>> \in LinkTable}

\* The MAIN block m is adjacent to the CALL block c: for a multi-week category
\* m starts within 7 days before c starts or ends within 7 days after c starts,
\* for a single-week category m ends 0..2 days before c starts.
Adjacent(c, m) ==
    LET task == TaskNamed(m.name)
    IN IF task.category.days_parameter = "MULTI_WEEK" /\ NumberOfWeeks(task) > 1
       THEN \/ (0 <= c.start_date - m.start_date /\ c.start_date - m.start_date <= 7)
            \/ (0 <= m.end_date - c.start_date /\ m.end_date - c.start_date <= 7)
       ELSE 0 <= c.start_date - m.end_date /\ c.start_date - m.end_date <= 2

\* C5: linkage -- in a produced schedule, a physician who holds a CALL block of
\* a CALL task with linked MAIN tasks also holds at least one adjacent MAIN
\* block of one of those MAIN tasks, whether or not the physician is eligible
\* for any such MAIN block.
C5_Linkage ==
    Produced =>
        \A c \in AllMathTasks : \A p \in PhysicianNames :
            (c.task_type = "CALL" /\ LinkedMainTasks(c.name) # {} /\ Holds(p, c)) =>
                \E m \in AllMathTasks :
                    /\ m.name \in {t.name : t \in LinkedMainTasks(c.name)}
                    /\ Adjacent(c, m)
                    /\ Holds(p, m)

\* The multi-week groups _group_math_tasks_into_blocks forms, over all tasks.
MultiWeekGroups == {tb.block : tb \in {x \in Range(TaskBlocks) : Len(x.block) > 1}}

\* C6: multi-week coherence -- in a produced schedule, every physician,
\* eligible for the whole group or not, holds either every weekly block of a
\* multi-week group or none of them.
C6_MultiWeekCoherence ==
    Produced =>
        \A G \in MultiWeekGroups : \A p \in PhysicianNames :
            \A i \in 1..(Len(G) - 1) : Holds(p, G[i]) <=> Holds(p, G[i + 1])

\* C7: main implies call -- in a produced schedule, a physician who holds a
\* MAIN block of a task linked to a CALL task also holds the block of that CALL
\* task that starts the day after the MAIN block ends.
C7_MainImpliesCall ==
    Produced =>
        \A m \in AllMathTasks : \A p \in PhysicianNames :
            (m.task_type = "MAIN" /\ get_linked_call(TaskNamed(m.name)) # "None"
             /\ Holds(p, m)) =>
                \A c \in AllMathTasks :
                    (c.name = get_linked_call(TaskNamed(m.name))
                     /\ c.start_date = m.end_date + 1) => Holds(p, c)

\* C8: at most one physician per block -- in every solution, at most one of the
\* variables y[b,p] of a block b is 1, so no block is held by two physicians.
C8_AtMostOnePhysician ==
    (pc \in {"solved", "done"} /\ status = "OPTIMAL") =>
        \A mt \in AllMathTasks :
            Cardinality({p \in PhysicianNames : YKey(mt, p) \in solution}) <= 1

\* C9: infeasibility is reported -- when generate_schedule has finished with a
\* solver status that is neither OPTIMAL nor FEASIBLE, it has raised an
\* infeasibility error to its caller.
C9_InfeasibilityReported ==
    (pc = "done" /\ status \notin {"NONE", "OPTIMAL", "FEASIBLE"}) =>
        raised = "InfeasibleError"

\* C10: slack for uncoverable mandatory blocks -- once the constraints are
\* built, every mandatory block with no physician both available on all its
\* days and not excluded has a constraint sum_p y[b,p] + s[b] = 1, where s[b] is
\* a variable of the model other than the assignment variables.
C10_SlackForUncoverable ==
    pc \in {"solve", "solved", "done"} /\ raised = "None" =>
        \A mt \in AllMathTasks :
            (mt.mandatory /\ E(mt) = {}) =>
                \E c \in constraints :
                    /\ c.kind = "sum_eq1"
                    /\ \A p \in PhysicianNames : YKey(mt, p) \in Range(c.ys)
                    /\ \E s \in Range(c.ys) : s \notin y_keys

\* The loaded schedule after equals the schedule S before: same physicians, same
\* order of records, and in each record the same task, start_date, end_date
\* and score and the same days, each a date as in S.
SameSchedule(after, S) ==
    /\ DOMAIN after = DOMAIN S
    /\ \A p \in DOMAIN S :
          /\ Len(after[p]) = Len(S[p])
          /\ \A i \in 1..Len(S[p]) :
                /\ after[p][i].task = S[p][i].task
                /\ after[p][i].start_date = S[p][i].start_date
                /\ after[p][i].end_date = S[p][i].end_date
                /\ after[p][i].score = S[p][i].score
                /\ Len(after[p][i].days) = Len(S[p][i].days)
                /\ \A j \in 1..Len(S[p][i].days) :
                      after[p][i].days[j] = PyDate(S[p][i].days[j])

\* C11: round trip -- load_schedule of the file save_schedule wrote for a
\* generated schedule S succeeds and leaves self.schedule equal to S, the days
\* of every record being dates as they were before saving.
C11_RoundTrip ==
    [][(pc = "saved" /\ pc' # "saved") =>
           (pc' = "loaded" /\ SameSchedule(schedule', schedule))]_vars

\* A record of a schedule file is well formed: start_date <= end_date, the
\* first day is start_date, the last day is end_date and each day is the day
\* after the one before it.
WellFormedRecord(t) ==
    LET day(j) == fromisoformat(t.days[j])
    IN /\ fromisoformat(t.start_date) <= fromisoformat(t.end_date)
       /\ day(1) = fromisoformat(t.start_date)
       /\ day(Len(t.days)) = fromisoformat(t.end_date)
       /\ \A j \in 1..(Len(t.days) - 1) : day(j + 1) - day(j) = 1

\* Every record of the file f has a known physician and a known task and is
\* well formed.
AcceptableFile(f) ==
    \A p \in DOMAIN f :
        /\ p \in PhysicianNames
        /\ \A i \in 1..Len(f[p]) :
              /\ f[p][i].task \in {t.name : t \in Range(tasks)}
              /\ WellFormedRecord(f[p][i])

OverlappingRecords(sched) ==
    \E p \in DOMAIN sched : \E i, j \in 1..Len(sched[p]) :
        /\ i # j
        /\ sched[p][i].start_date <= sched[p][j].end_date
        /\ sched[p][j].start_date <= sched[p][i].end_date

\* Two variables of the hint are of one physician and of overlapping day ranges.
OverlappingHint ==
    \E i, j \in 1..Len(solution_hint.vars) :
        /\ i # j
        /\ solution_hint.vars[i][4] = solution_hint.vars[j][4]
        /\ solution_hint.vars[i][2] <= solution_hint.vars[j][3]
        /\ solution_hint.vars[j][2] <= solution_hint.vars[i][3]

\* C13: overlap in a loaded schedule is rejected -- a user's schedule in which
\* two records of one physician overlap is never in place as the loaded
\* schedule, and is never submitted to the solver as a hint.
C13_OverlapRejected ==
    /\ pc = "idle" => ~OverlappingRecords(schedule)
    /\ ~OverlappingHint

\* The days a list of unavailability entries covers: each single date, and
\* every day from the start to the end of each interval.
CoveredDays(entries) ==
    UNION { IF e.kind = "tuple" THEN e.start_date..e.end_date ELSE {e.start_date} :
              e \in Range(entries) }

\* C14: is_unavailable(physician, day) returns true exactly when day is a
\* single-date entry of the physician or lies in one of the physician's
\* intervals, both ends included, and false for a physician with no entries.
C14_IsUnavailable ==
    is_unavailable_call.name # "None" =>
        (is_unavailable_call.returned <=>
            /\ is_unavailable_call.name \in DOMAIN unavailability_periods
            /\ is_unavailable_call.check_date \in
                   CoveredDays(unavailability_periods[is_unavailable_call.name]))

\* C14 witness: is_unavailable returned true for the last day of an interval
\* of more than one day.
C14_Witness ==
    /\ is_unavailable_call.returned
    /\ \A e \in Range(unavailability_periods[is_unavailable_call.name]) :
          /\ e.kind = "tuple"
          /\ e.start_date < e.end_date
          /\ e.end_date = is_unavailable_call.check_date

\* C15: chronological output -- in a produced schedule, the records of every
\* physician are in order of non-decreasing start_date.
C15_ChronologicalOutput ==
    Produced =>
        \A p \in DOMAIN schedule : \A i, j \in 1..Len(schedule[p]) :
            i < j => schedule[p][i].start_date <= schedule[p][j].start_date

\* The places (physician, index) of the records of self.schedule.
RecordPlaces ==
    UNION { { <<p, i>> : i \in 1..Len(schedule[p]) } : p \in DOMAIN schedule }

\* C16: materialization is exact -- after a solve that found a solution, the
\* schedule has as many records as variables with value 1, and for every
\* variable y[b,p] = 1 exactly one record of p with the task and the days of
\* b; so it has no other record, and none of a schedule loaded before.
C16_ExactMaterialization ==
    Produced =>
        /\ Cardinality(RecordPlaces) = Cardinality(solution)
        /\ \A mt \in AllMathTasks : \A p \in PhysicianNames :
              YKey(mt, p) \in solution =>
                  Cardinality({ i \in 1..Len(Assignments(p)) :
                                  /\ Assignments(p)[i].task = TaskNamed(mt.name)
                                  /\ Assignments(p)[i].days = mt.days }) = 1

\* C16 witness: a schedule was produced after a user's schedule had been
\* loaded, and a record of the loaded file is not in the produced schedule.
C16_Witness ==
    /\ Produced
    /\ solution # {}
    /\ \E p \in DOMAIN file : \E i \in 1..Len(file[p]) :
          \A j \in 1..Len(Assignments(p)) :
              \/ Assignments(p)[j].task.name # file[p][i].task
              \/ isoformat(Assignments(p)[j].start_date) # file[p][i].start_date

\* The variables y[task, start_date, end_date, physician] of the records of
\* self.schedule.
ScheduleVariables ==
    UNION { { <<schedule[p][i].task.name, schedule[p][i].start_date,
                schedule[p][i].end_date, p>> : i \in 1..Len(schedule[p]) } :
            p \in DOMAIN schedule }

\* C17: solution hint -- with use_initial_schedule = true and a loaded schedule
\* whose records all match blocks, the hint submitted to the solver holds
\* exactly the variables of the loaded records, each with value 1; with
\* use_initial_schedule = false no hint is submitted.
C17_SolutionHint ==
    /\ ~use_initial_schedule => solution_hint.vars = <<>> /\ solution_hint.values = <<>>
    /\ (use_initial_schedule /\ pc \in {"solve", "solved"}) =>
           /\ Range(solution_hint.vars) = ScheduleVariables
           /\ Range(solution_hint.vars) \subseteq y_keys
           /\ Len(solution_hint.values) = Len(solution_hint.vars)
           /\ \A i \in 1..Len(solution_hint.values) : solution_hint.values[i] = 1

\* C17 witness: the solver has run with a hint of two variables taken from a
\* loaded schedule of two records.
C17_Witness ==
    /\ use_initial_schedule
    /\ pc = "solved"
    /\ Cardinality(Range(solution_hint.vars)) = 2
    /\ Cardinality(ScheduleVariables) = 2

\* The physicians ph and qh differ only in their names and in that ph has
\* the category among their preferred tasks and qh has not.
DifferOnlyInPreference(ph, qh, category_name) ==
    /\ ph.name # qh.name
    /\ ph.qualifications = qh.qualifications
    /\ ph.restricted_tasks = qh.restricted_tasks
    /\ ph.exclusion_tasks = qh.exclusion_tasks
    /\ category_name \in ph.preferred_tasks
    /\ category_name \notin qh.preferred_tasks

\* No block of another task shares a day with the block mt.
Uncontended(mt) ==
    \A other \in AllMathTasks :
        other.name # mt.name => Range(other.days) \cap Range(mt.days) = {}

\* C18: preference tie-break -- in a produced schedule, a block that two
\* physicians are equally eligible for, who differ only in that one of them
\* prefers the block's category, is not held by the one who does not prefer it.
C18_PreferenceTieBreak ==
    Produced =>
        \A mt \in AllMathTasks : \A ph, qh \in Range(physicians) :
            ( /\ DifferOnlyInPreference(ph, qh, TaskNamed(mt.name).category.name)
              /\ {ph.name, qh.name} \subseteq E(mt)
              /\ Uncontended(mt) )
            => ~Holds(qh.name, mt)

\* The 28-day bucket, counted from the scheduling start date, a day falls in.
Bucket(day) == (day - scheduling_period[1]) \div 28

\* C19: call spacing -- in a produced schedule, the CALL assignments of one
\* physician that start in the same 28-day bucket are all of the same CALL task.
C19_CallSpacing ==
    Produced =>
        \A p \in DOMAIN schedule : \A i, j \in 1..Len(schedule[p]) :
            ( /\ schedule[p][i].task.type = "CALL"
              /\ schedule[p][j].task.type = "CALL"
              /\ Bucket(schedule[p][i].start_date) = Bucket(schedule[p][j].start_date) )
            => schedule[p][i].task.name = schedule[p][j].task.name

\* N: the maximum number_of_weeks over all registered tasks.
MaxNumberOfWeeks ==
    CHOOSE n \in {NumberOfWeeks(t) : t \in Range(tasks)} :
        \A t \in Range(tasks) : NumberOfWeeks(t) <= n

\* C20: horizon extension -- the weeks selected by generate_schedule are the
\* calendar weeks starting between the scheduling start date and
\* end_date + (N - 1) * 7 days; with N = 1 the horizon is the end date itself.
C20_HorizonExtension ==
    pc = "variables" =>
        DOMAIN relevant_periods =
            {ws \in DOMAIN calendar :
                /\ scheduling_period[1] <= ws
                /\ ws <= scheduling_period[2] + (MaxNumberOfWeeks - 1) * 7}

\* The groups _group_math_tasks_into_blocks returns for the task.
GroupsOf(task) == group_math_tasks_into_blocks(task, math_tasks[task.name])

\* The MULTI_WEEK MAIN tasks of two weeks or more.
MultiWeekTasks ==
    {t \in Range(tasks) : /\ t.type = "MAIN"
                          /\ t.category.days_parameter = "MULTI_WEEK"
                          /\ NumberOfWeeks(t) >= 2}

\* C21: multi-week alignment -- once the blocks are created, every group of a
\* MULTI_WEEK MAIN task with number_of_weeks n and week_offset k starts at a
\* week whose index w among the sorted horizon weeks has (w + k) mod n = 0.
C21_MultiWeekAlignment ==
    pc \in {"constraints", "solve", "solved", "done"} /\ raised = "None" =>
        \A t \in MultiWeekTasks : \A g \in 1..Len(GroupsOf(t)) :
            (GroupsOf(t)[g][1].index + t.week_offset) % NumberOfWeeks(t) = 0

\* The weeks of the horizon in which the task has a block.
WeeksWithBlock(t) == {mt.week_start : mt \in Range(math_tasks[t.name])}

\* The block mt of the MULTI_WEEK task t cannot be completed: no run of
\* number_of_weeks consecutive weeks that each have a block of t includes
\* the week of mt.
Incomplete(t, mt) ==
    ~\E s \in WeeksWithBlock(t) :
        /\ s <= mt.week_start
        /\ mt.week_start <= s + 7 * (NumberOfWeeks(t) - 1)
        /\ \A j \in 0..(NumberOfWeeks(t) - 1) : s + 7 * j \in WeeksWithBlock(t)

\* C22: incomplete groups are discarded -- a weekly block of a MULTI_WEEK task
\* that cannot be completed into a full group inside the horizon has y = 0 for
\* every physician in every solution, and is held by nobody in the produced
\* schedule.
C22_IncompleteGroupsDiscarded ==
    (pc \in {"solved", "done"} /\ status = "OPTIMAL") =>
        \A t \in MultiWeekTasks : \A mt \in Range(math_tasks[t.name]) :
            Incomplete(t, mt) =>
                \A p \in PhysicianNames :
                    /\ YKey(mt, p) \notin solution
                    /\ pc = "done" => ~Holds(p, mt)

\* The places (group, member) of the blocks in a list of groups.
GroupPlaces(groups) ==
    UNION { { <<g, j>> : j \in 1..Len(groups[g]) } : g \in 1..Len(groups) }

\* C23: MultiWeekGroup shape -- every group _group_math_tasks_into_blocks
\* returns for a MULTI_WEEK task of n >= 2 weeks has exactly n members, the
\* week_start values of successive members are exactly 7 days apart, and no
\* block is a member of two groups (or twice of one).
C23_GroupShape ==
    pc \in {"constraints", "solve", "solved", "done"} /\ raised = "None" =>
        \A t \in MultiWeekTasks :
            LET groups == GroupsOf(t)
            IN /\ \A g \in 1..Len(groups) :
                     /\ Len(groups[g]) = NumberOfWeeks(t)
                     /\ \A j \in 1..(Len(groups[g]) - 1) :
                           groups[g][j + 1].week_start - groups[g][j].week_start = 7
               /\ \A a, b \in GroupPlaces(groups) :
                     a # b => groups[a[1]][a[2]] # groups[b[1]][b[2]]

\* C23 witness: the blocks of a task are created, one of its weeks has two MAIN
\* blocks, a group was formed and a block was left out of every group.
C23_Witness ==
    /\ pc = "constraints"
    /\ \E t \in MultiWeekTasks :
          /\ Len(GroupsOf(t)) >= 1
          /\ \E i, j \in 1..Len(math_tasks[t.name]) :
                /\ i # j
                /\ math_tasks[t.name][i].week_start = math_tasks[t.name][j].week_start
          /\ \E mt \in Range(math_tasks[t.name]) :
                \A g \in 1..Len(GroupsOf(t)) : mt \notin Range(GroupsOf(t)[g])

\* The linkage ties the CALL block c to the MAIN block m for physician p:
\* the model has the constraint y[c,p] == y[m,p].
Linked(c, m, p) == Constraint("eq", <<YKey(c, p), YKey(m, p)>>) \in constraints

\* C24: adjacency for multi-week categories -- once the constraints are built,
\* for every MAIN task of a MULTI_WEEK category with a linked CALL task, every
\* group of it, every physician eligible for the group and every block c of the
\* CALL task, a MAIN block m of the group is tied to c exactly when
\* 0 <= c.start_date - m.start_date <= 7 or 0 <= m.end_date - c.start_date <= 7.
C24_MultiWeekAdjacency ==
    pc \in {"solve", "solved", "done"} /\ raised = "None" =>
        \A t \in MultiWeekTasks :
            get_linked_call(t) # "None" =>
                \A g \in 1..Len(GroupsOf(t)) :
                    \A p \in Range(get_eligible_physicians_for_block(GroupsOf(t)[g], t)) :
                        \A m \in Range(GroupsOf(t)[g]) :
                            \A c \in Range(math_tasks[get_linked_call(t)]) :
                                Linked(c, m, p) <=> Adjacent(c, m)

\* C25: single call coverage -- in every solution, for every CALL block,
\* mandatory or not, at most one physician has y = 1, so no call block is
\* covered by two physicians.
C25_SingleCallCoverage ==
    (pc \in {"solved", "done"} /\ status = "OPTIMAL") =>
        \A c \in AllMathTasks :
            c.task_type = "CALL" =>
                Cardinality({p \in PhysicianNames : YKey(c, p) \in solution}) <= 1

\* The pairs (a, b) of positions of A and B whose blocks have intersecting
\* closed day ranges.
IntersectingPairs(A, B) ==
    {x \in (1..Len(A)) \X (1..Len(B)) :
        /\ A[x[1]].start_date <= B[x[2]].end_date
        /\ B[x[2]].start_date <= A[x[1]].end_date}

\* The constraints y[A[a],p] + y[B[b],p] <= 1 of the intersecting pairs, for
\* every physician.
ExclusionsOf(A, B) ==
    { Constraint("le1", <<YKey(A[x[1]], p), YKey(B[x[2]], p)>>) :
        x \in IntersectingPairs(A, B), p \in PhysicianNames }

\* The while loop of the sweep has ended.
SweepDone == ~(sweep.i < Len(sweep.A) /\ sweep.j < Len(sweep.B))

\* C26: two-pointer sweep -- on two lists of blocks, each sorted by start_date
\* and without overlap inside, the sweep never adds a constraint for a pair
\* that does not intersect, has added the constraint of every intersecting
\* pair for every physician once the loop has ended, and makes at most
\* len(A) + len(B) iterations.
C26_TwoPointerSweep ==
    /\ sweep.added \subseteq ExclusionsOf(sweep.A, sweep.B)
    /\ sweep.steps <= Len(sweep.A) + Len(sweep.B)
    /\ SweepDone => sweep.added = ExclusionsOf(sweep.A, sweep.B)

\* C26 witness: the loop has ended on two lists of two blocks where a block of
\* A intersects both blocks of B and ends on the same day as one of them.
C26_Witness ==
    /\ SweepDone
    /\ Len(sweep.A) = 2 /\ Len(sweep.B) = 2
    /\ sweep.steps >= 3
    /\ \E a \in 1..2 :
          /\ {<<a, 1>>, <<a, 2>>} \subseteq IntersectingPairs(sweep.A, sweep.B)
          /\ \E b \in 1..2 : sweep.A[a].end_date = sweep.B[b].end_date

\* The pairs of records of physician p whose closed ranges
\* [start_date, end_date] intersect.
OverlappingPairs(p) ==
    {x \in (1..Len(schedule[p])) \X (1..Len(schedule[p])) :
        /\ x[1] < x[2]
        /\ schedule[p][x[1]].start_date <= schedule[p][x[2]].end_date
        /\ schedule[p][x[2]].start_date <= schedule[p][x[1]].end_date}

\* C30: check_conflicts is exact -- on a schedule whose records all have
\* start_date <= end_date, check_conflicts returns an empty list exactly when
\* no physician has two records with intersecting ranges.
C30_CheckConflictsExact ==
    check_conflicts_call.called =>
        (check_conflicts_call.returned = <<>>
            <=> \A p \in DOMAIN schedule : OverlappingPairs(p) = {})

\* C30 witness: check_conflicts has reported a single conflict on three
\* records given out of start_date order, of which the record that starts
\* first intersects both others while those two do not intersect.
C30_Witness ==
    /\ check_conflicts_call.called
    /\ Len(check_conflicts_call.returned) = 1
    /\ \E p \in DOMAIN schedule :
          /\ Len(schedule[p]) = 3
          /\ schedule[p][1].start_date > schedule[p][3].start_date
          /\ schedule[p][2].start_date > schedule[p][1].start_date
          /\ OverlappingPairs(p) = {<<1, 3>>, <<2, 3>>}

\* The blocks created for the task.
BlocksOf(t) == Range(math_tasks[t.name])

\* The mandatory MAIN tasks t1 and t2 are linked to the same registered CALL
\* task and their blocks cover the same days.
ShareCallTask(t1, t2) ==
    /\ t1.name # t2.name
    /\ t1.type = "MAIN" /\ t2.type = "MAIN"
    /\ t1.mandatory /\ t2.mandatory
    /\ get_linked_call(t1) # "None"
    /\ get_linked_call(t1) = get_linked_call(t2)
    /\ {mt.days : mt \in BlocksOf(t1)} = {mt.days : mt \in BlocksOf(t2)}

\* The physicians available and not excluded for every block of t1, of t2 and
\* of their CALL task.
FreeForAll(t1, t2) ==
    {p \in PhysicianNames :
        \A mt \in BlocksOf(t1) \cup BlocksOf(t2) \cup BlocksOf(TaskNamed(get_linked_call(t1))) :
            p \in E(mt)}

\* C27: a shared call task stays satisfiable -- when the tasks are two
\* mandatory MAIN tasks on the same days linked to one CALL task, and that
\* CALL task, and two physicians or more are available and not excluded for
\* all their blocks, the solver finds a solution, and in it no physician holds
\* blocks of both MAIN tasks on the same days.
C27_SharedCallSatisfiable ==
    (pc \in {"solved", "done"} /\ raised = "None") =>
        \A t1, t2 \in Range(tasks) :
            ( /\ ShareCallTask(t1, t2)
              /\ Range(tasks) = {t1, t2, TaskNamed(get_linked_call(t1))}
              /\ Cardinality(FreeForAll(t1, t2)) >= 2 )
            => /\ status \in {"OPTIMAL", "FEASIBLE"}
               /\ \A m1 \in BlocksOf(t1), m2 \in BlocksOf(t2) : \A p \in PhysicianNames :
                     m1.days = m2.days =>
                         ~(YKey(m1, p) \in solution /\ YKey(m2, p) \in solution)

\* C29: output stays inside the requested period -- every day of every record
\* of a produced schedule lies between the start and the end of the
\* scheduling period.
C29_OutputInsidePeriod ==
    Produced =>
        \A p \in DOMAIN schedule : \A i \in 1..Len(schedule[p]) :
            \A day \in Range(schedule[p][i].days) :
                scheduling_period[1] <= day /\ day <= scheduling_period[2]

\* generate_schedule has returned with a status other than OPTIMAL or FEASIBLE.
FailedGeneration ==
    pc = "done" /\ raised = "None" /\ status \notin {"NONE", "OPTIMAL", "FEASIBLE"}

\* self.schedule as it was before generate_schedule was called: empty, or
\* what load_schedule made of the file.
ScheduleBeforeGeneration == IF file = <<>> THEN <<>> ELSE LoadedSchedule(file)

\* C28: a failed generation leaves the schedule untouched -- when
\* generate_schedule ends with a status other than OPTIMAL or FEASIBLE,
\* self.schedule is what it was before the call: empty, or the schedule
\* load_schedule has set.
C28_FailedGenerationKeepsSchedule ==
    FailedGeneration => schedule = ScheduleBeforeGeneration

\* A generation fails after load_schedule has set a schedule.
C28_Witness ==
    FailedGeneration /\ status = "INFEASIBLE" /\ file # <<>> /\ schedule # <<>>

====
